---- MODULE Spec2Model ----
(***************************************************************************)
(* Model of the batch scripts of GoM_ProbRI-MHW:                           *)
(*   scripts/HI_finder.py        the rapid-intensification (RI) detector   *)
(*   scripts/compound_mhw_RI.py  the MHW / RI compound-event matcher       *)
(* One run executes one script, top to bottom.  The file system is the     *)
(* only thing that survives a run.                                         *)
(*                                                                         *)
(* Conventions.                                                            *)
(*  - A data frame is a sequence of rows; python's 0-based label k is      *)
(*    position k+1 of the sequence (operator Row).                         *)
(*  - A timestamp TEXT is the record of its printed fields                 *)
(*    [mo, dd, yyyy, hh, mi]; a date text is [mo, dd, yyyy].  A parsed     *)
(*    datetime is the number of minutes since 2020-01-01 00:00.            *)
(*  - A timedelta is a number of minutes.  The detector's duration column  *)
(*    (hours, a float) is kept exactly in sixtieths of an hour.            *)
(*  - Latitudes and longitudes are in tenths of a degree.  calc_dist is    *)
(*    evaluated in fixed point and returns metres (thousandths of a km).   *)
(***************************************************************************)
EXTENDS Integers, Sequences, FiniteSets, TLC

VARIABLES
    script,      \* which script this run executes
    pc,          \* position of the run inside the script
    runs,        \* number of runs started so far
    fs,          \* file system: file name -> table (columns, rows)
    lastOut,     \* output files as the previous completed run left them
    df,          \* HI_finder: the loaded track table
    i,           \* HI_finder: outer loop index (0-based)
    results,     \* HI_finder: list of result rows
    resIdx,      \* HI_finder: (i, j) of each result row, in append order
    hi_df,       \* matcher: RI episode table
    mhw_df,      \* matcher: MHW table after dropna, rows with their labels
    mhw_pos,     \* matcher: number of MHW rows already iterated
    result_df,   \* matcher: matched records
    no_ri_df,    \* matcher: unmatched MHW rows
    pairIdx,     \* matcher: (mhw_idx, hi_idx) of each matched record
    noRiIdx,     \* matcher: mhw_idx of each unmatched row
    ri_dates,    \* field plots: the RI start dates of 2013-2022
    nc,          \* field plots: the NetCDF files on disk
    date_pos,    \* field plots: number of RI dates already iterated
    aggregate,   \* TCHP / LHF: aggregate_ohc, aggregate_lhf
    all_wind_shear, \* VWS: list of the per-date wind shear fields
    dataa,       \* grid plots: rows (groups) the first loop iterates, in order
    data,        \* conditional plot: rows the second loop iterates, in order
    row_pos,     \* grid plots: number of rows already iterated
    grid_counts, \* grid plots: counts of the first loop
    hurr_counts, \* conditional plot: counts of the second loop
    unique_hurr, \* conditional plot: (cell, storm) keys seen by the first loop
    unique_hurricanes, \* conditional plot: keys seen by the second loop
    grid_probs,  \* grid plots: the probabilities computed from grid_counts
    dist_args,   \* calc_dist: the two points it is called with
    dist_out     \* calc_dist: the values it returned

detVars == <<df, i, results, resIdx>>
matVars == <<hi_df, mhw_df, mhw_pos, result_df, no_ri_df, pairIdx, noRiIdx>>
envVars == <<ri_dates, nc, date_pos, aggregate, all_wind_shear>>
gridVars ==
    <<dataa, data, row_pos, grid_counts, hurr_counts, unique_hurr, unique_hurricanes,
      grid_probs>>
distVars == <<dist_args, dist_out>>
plotVars == <<envVars, gridVars, distVars>>

vars == <<script, pc, runs, fs, lastOut, detVars, matVars, plotVars>>

-----------------------------------------------------------------------------
(* Bounds of the model *)

MaxRows == 3
MaxMhw == 2
MaxHi == 2
MaxRuns == 2

-----------------------------------------------------------------------------
(* Generic helpers *)

Row(d, k) == d[k + 1]

SeqsUpTo(S, n) == UNION {[1..m -> S] : m \in 0..n}

NaN == "NaN"

\* integer division rounding toward zero (odd-symmetric, like IEEE negation)
fdiv(x, n) == IF x >= 0 THEN x \div n ELSE -((-x) \div n)

\* python's None; a value that may be None is None or a non-empty tuple
None == <<>>

\* the variables of a script that does not run keep these values
DetIdle == df = <<>> /\ i = 0 /\ results = <<>> /\ resIdx = <<>>

MatIdle ==
    /\ hi_df = <<>> /\ mhw_df = <<>> /\ mhw_pos = 0
    /\ result_df = <<>> /\ no_ri_df = <<>> /\ pairIdx = <<>> /\ noRiIdx = <<>>

EnvIdle ==
    /\ ri_dates = <<>> /\ nc = <<>> /\ date_pos = 0
    /\ aggregate = None /\ all_wind_shear = <<>>

GridIdle ==
    /\ dataa = <<>> /\ data = <<>> /\ row_pos = 0
    /\ grid_counts = <<>> /\ hurr_counts = <<>>
    /\ unique_hurr = {} /\ unique_hurricanes = {}
    /\ grid_probs = <<>>

DistIdle == dist_args = <<>> /\ dist_out = <<>>

PlotIdle == EnvIdle /\ GridIdle /\ DistIdle

-----------------------------------------------------------------------------
(* Calendar arithmetic behind strptime / to_datetime / Timestamp printing *)

IsLeap(y) == (y % 4 = 0 /\ y % 100 # 0) \/ y % 400 = 0

DaysInMonth(y, m) ==
    IF m = 2 THEN (IF IsLeap(y) THEN 29 ELSE 28)
    ELSE IF m \in {4, 6, 9, 11} THEN 30 ELSE 31

DaysInYear(y) == IF IsLeap(y) THEN 366 ELSE 365

\* days of a common year before the first day of each month
DaysBeforeMonthTable == <<0, 31, 59, 90, 120, 151, 181, 212, 243, 273, 304, 334>>

DaysBeforeMonth(y, m) ==
    DaysBeforeMonthTable[m] + (IF m > 2 /\ IsLeap(y) THEN 1 ELSE 0)

RECURSIVE DaysBeforeYear(_)
DaysBeforeYear(y) ==
    IF y <= 2020 THEN 0 ELSE DaysBeforeYear(y - 1) + DaysInYear(y - 1)

\* datetime.strptime(text, '%m/%d/%Y %H:%M') and
\* pd.to_datetime(text, format='%m/%d/%Y %H:%M')
strptime(s) ==
    ((DaysBeforeYear(s.yyyy) + DaysBeforeMonth(s.yyyy, s.mo) + (s.dd - 1)) * 24
        + s.hh) * 60 + s.mi

\* a parser that accepts any day number up to 31 in every month
matches_format_any_day(s) ==
    /\ s.mo \in 1..12
    /\ s.dd \in 1..31
    /\ s.hh \in 0..23
    /\ s.mi \in 0..59

\* the text is a timestamp of the format '%m/%d/%Y %H:%M'; on any other
\* text strptime and pd.to_datetime raise ValueError
matches_format(s) ==
    /\ s.mo \in 1..12
    /\ s.dd \in 1..DaysInMonth(s.yyyy, s.mo)
    /\ s.hh \in 0..23
    /\ s.mi \in 0..59

\* the text is a date of the format '%m/%d/%Y'
matches_date_format(s) ==
    s.mo \in 1..12 /\ s.dd \in 1..DaysInMonth(s.yyyy, s.mo)

\* pd.to_datetime(text, format='%m/%d/%Y'): midnight of that day
to_datetime(s) ==
    (DaysBeforeYear(s.yyyy) + DaysBeforeMonth(s.yyyy, s.mo) + (s.dd - 1)) * 1440

\* timedelta(days=n) / pd.DateOffset(days=n) on naive timestamps
timedelta(days) == days * 1440

\* Timedelta.days rounding toward zero instead of flooring
td_days_truncated(td) == fdiv(td, 1440)

\* Timedelta.days: the whole-day component, floored
td_days(td) == td \div 1440

\* how to_csv prints a datetime: YYYY-MM-DD HH:MM:SS
isoformat(t) ==
    LET d  == t \div 1440
        y  == CHOOSE yy \in 2020..2021 :
                 DaysBeforeYear(yy) <= d /\ d < DaysBeforeYear(yy) + DaysInYear(yy)
        dy == d - DaysBeforeYear(y)
        m  == CHOOSE mm \in 1..12 :
                 DaysBeforeMonth(y, mm) <= dy
                 /\ dy < DaysBeforeMonth(y, mm) + DaysInMonth(y, mm)
    IN  [yyyy |-> y, mo |-> m, dd |-> dy - DaysBeforeMonth(y, m) + 1,
         hh |-> (t % 1440) \div 60, mi |-> t % 60, ss |-> 0]

-----------------------------------------------------------------------------
(* numpy arithmetic of calc_dist, in fixed point.                          *)
(* Angles are in microradians; sines in millionths; the haversine term a   *)
(* in units of 1e-9.  The series are exact to the printed digits for the   *)
(* separations the matcher compares with 200 km (a few degrees).           *)

\* np.radians of a coordinate given in tenths of a degree
np_radians(d10) == fdiv(d10 * 174533, 100)

\* np.sin of a small angle: x - x^3/6
np_sin(x) == x - fdiv(fdiv(x * x, 1000000) * x, 6000000)

\* np.cos, scaled by 1e6: 1 - x^2/2 + x^4/24 - x^6/720 (x taken in millirad)
np_cos(x) ==
    LET m  == fdiv(x, 1000)
        x2 == m * m
        x4 == fdiv(x2, 1000) * fdiv(x2, 1000)
        x6 == fdiv(x4, 1000) * fdiv(x2, 1000)
    IN  1000000 - fdiv(x2, 2) + fdiv(x4, 24) - fdiv(x6, 720)

\* largest r with r * r <= n, by bisection on lo..hi
RECURSIVE isqrt_between(_, _, _)
isqrt_between(n, lo, hi) ==
    IF lo >= hi THEN lo
    ELSE LET mid == (lo + hi + 1) \div 2
         IN  IF mid * mid <= n THEN isqrt_between(n, mid, hi)
             ELSE isqrt_between(n, lo, mid - 1)

\* np.sqrt
np_sqrt(n) == isqrt_between(n, 0, 46340)

\* np.arctan2(y, x) for y in millionths and x (scaled by 1e6) close to 1:
\* t = y / x, arctan t = t - t^3/3
np_arctan2(y, x) ==
    LET t == y + fdiv(y * (1000000 - x), 1000000)
    IN  t - fdiv(fdiv(t * t, 1000000) * t, 3000000)

R == 6371

\* the haversine term with cos(lat1) taken twice in place of
\* cos(lat1) * cos(lat2)
haversine_one_cos(lat1, lon1, lat2_arr, lon2_arr) ==
    LET lat1_rad == np_radians(lat1)
        lon1_rad == np_radians(lon1)
        lat2_rad == np_radians(lat2_arr)
        lon2_rad == np_radians(lon2_arr)
        dlat == lat2_rad - lat1_rad
        dlon == lon2_rad - lon1_rad
        slat == np_sin(fdiv(dlat, 2))
        slon == np_sin(fdiv(dlon, 2))
        coscos == fdiv(fdiv(np_cos(lat1_rad), 1000) * fdiv(np_cos(lat1_rad), 1000), 1000)
        a == fdiv(slat * slat, 1000) + fdiv(coscos * fdiv(slon * slon, 1000), 1000)
        c == 2 * np_arctan2(np_sqrt(a * 1000), 1000000 - fdiv(a, 2000))
    IN  fdiv(R * c, 1000)

\* lines 56-67: the haversine distance; result in metres
haversine(lat1, lon1, lat2_arr, lon2_arr) ==
    LET lat1_rad == np_radians(lat1)
        lon1_rad == np_radians(lon1)
        lat2_rad == np_radians(lat2_arr)
        lon2_rad == np_radians(lon2_arr)
        dlat == lat2_rad - lat1_rad
        dlon == lon2_rad - lon1_rad
        slat == np_sin(fdiv(dlat, 2))
        slon == np_sin(fdiv(dlon, 2))
        coscos == fdiv(fdiv(np_cos(lat1_rad), 1000) * fdiv(np_cos(lat2_rad), 1000), 1000)
        a == fdiv(slat * slat, 1000) + fdiv(coscos * fdiv(slon * slon, 1000), 1000)
        c == 2 * np_arctan2(np_sqrt(a * 1000), 1000000 - fdiv(a, 2000))
        distance == fdiv(R * c, 1000)
    IN  distance

\* the (lat, lon) points of the model's tables: the MHW cell, an RI start
\* 39 km from it and one 222 km from it
Points == {<<250, -900>>, <<253, -902>>, <<270, -900>>}

\* haversine over the pairs of points, evaluated once
DistanceTable ==
    [p \in {<<a, b>> : a \in Points, b \in Points} |->
        haversine(p[1][1], p[1][2], p[2][1], p[2][2])]

calc_dist(lat1, lon1, lat2_arr, lon2_arr) ==
    DistanceTable[<< <<lat1, lon1>>, <<lat2_arr, lon2_arr>> >>]

\* a distance in whole km, in the unit calc_dist returns
km(n) == n * 1000

-----------------------------------------------------------------------------
(* Files *)

Table(columns, rows) == [columns |-> columns, rows |-> rows]

NoFile == Table(<<>>, <<>>)

FileNames ==
    {"ibtracs_data.csv", "intensifications.csv",
     "intensifications30_IID_24.csv", "MHW_1940_2022_80_52.csv",
     "MHW_info_80_52_24.csv", "no_RI.csv", "MHW_info_41_24.csv"}

\* what an output file holds before the first run: the table of some
\* earlier run on other data
StaleTable == Table(<<"stale">>, <<[stale |-> "row of an earlier run"]>>)

OutputFiles ==
    IF script = "HI_finder" THEN {"intensifications.csv"}
    ELSE {"MHW_info_80_52_24.csv", "no_RI.csv"}

Outputs == [f \in OutputFiles |-> fs[f]]

-----------------------------------------------------------------------------
(* HI_finder.py: inputs *)

TrackColumns == <<"NAME", "ISO_TIME", "USA_WIND", "LAT", "LON">>

TimeText(mo, dd, yyyy, hh, mi) ==
    [mo |-> mo, dd |-> dd, yyyy |-> yyyy, hh |-> hh, mi |-> mi]

TrackTimes ==
    {TimeText(8, 10, 2020, 0, 0), TimeText(8, 11, 2020, 0, 0),
     TimeText(8, 11, 2020, 0, 1)}

TrackRows ==
    [NAME : {"A", "B"}, ISO_TIME : TrackTimes, USA_WIND : {30, 60, 70},
     LAT : {253}, LON : {-902}]

\* the rows of one storm are contiguous and in chronological order; the
\* storms are named in their order in the table
WellFormedTracks(t) ==
    /\ Len(t) > 0 => t[1].NAME = "A"
    /\ \A a \in 1..Len(t) : \A b \in a..Len(t) :
          t[a].NAME = t[b].NAME =>
              /\ \A c \in a..b : t[c].NAME = t[a].NAME
              /\ strptime(t[a].ISO_TIME) <= strptime(t[b].ISO_TIME)

\* one storm, wind speeds 30, 40, 50, 65, 70 at hourly steps
HourlyStorm ==
    [n \in 1..5 |->
        [NAME |-> "A", ISO_TIME |-> TimeText(8, 10, 2020, n - 1, 0),
         USA_WIND |-> <<30, 40, 50, 65, 70>>[n], LAT |-> 253, LON |-> -902]]

TrackTables ==
    {t \in SeqsUpTo(TrackRows, MaxRows) : WellFormedTracks(t)} \cup {HourlyStorm}

\* a text of the right shape that is no timestamp: February 30
BadTimeText == TimeText(2, 30, 2020, 0, 0)

\* track tables of one storm in which any row may carry the bad text
ErrTrackRows ==
    [NAME : {"A"}, ISO_TIME : TrackTimes \cup {BadTimeText}, USA_WIND : {30, 60},
     LAT : {253}, LON : {-902}]

ErrTrackTables == SeqsUpTo(ErrTrackRows, MaxRows)

-----------------------------------------------------------------------------
(* HI_finder.py: the script *)

NoIndex == -1

\* intensifying_from with a strict wind-speed comparison (> 30)
RECURSIVE intensifying_from_strict(_, _, _, _)
intensifying_from_strict(d, current_time, current_wind_speed, k) ==
    IF k >= Len(d) THEN FALSE
    ELSE LET time_diff == strptime(Row(d, k).ISO_TIME) - current_time
             wind_speed_diff == Row(d, k).USA_WIND - current_wind_speed
         IN  IF time_diff > timedelta(1) THEN FALSE
             ELSE IF wind_speed_diff > 30 THEN TRUE
             ELSE intensifying_from_strict(d, current_time, current_wind_speed, k + 1)

\* intensifying_from with an exclusive time window (>= one day breaks)
RECURSIVE intensifying_from_exclusive(_, _, _, _)
intensifying_from_exclusive(d, current_time, current_wind_speed, k) ==
    IF k >= Len(d) THEN FALSE
    ELSE LET time_diff == strptime(Row(d, k).ISO_TIME) - current_time
             wind_speed_diff == Row(d, k).USA_WIND - current_wind_speed
         IN  IF time_diff >= timedelta(1) THEN FALSE
             ELSE IF wind_speed_diff >= 30 THEN TRUE
             ELSE intensifying_from_exclusive(d, current_time, current_wind_speed, k + 1)

\* lines 41-48: the forward scan of is_intensifying from row k on
RECURSIVE intensifying_from(_, _, _, _)
intensifying_from(d, current_time, current_wind_speed, k) ==
    IF k >= Len(d) THEN FALSE
    ELSE LET time_diff == strptime(Row(d, k).ISO_TIME) - current_time
             wind_speed_diff == Row(d, k).USA_WIND - current_wind_speed
         IN  IF time_diff > timedelta(1) THEN FALSE
             ELSE IF wind_speed_diff >= 30 THEN TRUE
             ELSE intensifying_from(d, current_time, current_wind_speed, k + 1)

is_intensifying(d, index) ==
    intensifying_from(d, strptime(Row(d, index).ISO_TIME),
                      Row(d, index).USA_WIND, index + 1)

\* lines 41-48: the forward scan of is_intensifying, from row k on, stops
\* with a ValueError: it parses every row up to the one that ends the scan
RECURSIVE raises_from(_, _, _, _)
raises_from(d, current_time, current_wind_speed, k) ==
    IF k >= Len(d) THEN FALSE
    ELSE IF ~matches_format(Row(d, k).ISO_TIME) THEN TRUE
    ELSE LET time_diff == strptime(Row(d, k).ISO_TIME) - current_time
             wind_speed_diff == Row(d, k).USA_WIND - current_wind_speed
         IN  IF time_diff > timedelta(1) THEN FALSE
             ELSE IF wind_speed_diff >= 30 THEN FALSE
             ELSE raises_from(d, current_time, current_wind_speed, k + 1)

\* lines 38-48: is_intensifying(df, index) raises ValueError
is_intensifying_raises(d, index) ==
    IF ~matches_format(Row(d, index).ISO_TIME) THEN TRUE
    ELSE raises_from(d, strptime(Row(d, index).ISO_TIME),
                     Row(d, index).USA_WIND, index + 1)

\* extract_from leaving the scan a row early: at a time difference of one
\* day, which is_intensifying still accepts
RECURSIVE extract_from_exclusive(_, _, _, _)
extract_from_exclusive(d, start_time, start_wind_speed, k) ==
    IF k >= Len(d) THEN NoIndex
    ELSE LET time_diff == strptime(Row(d, k).ISO_TIME) - start_time
             wind_speed_diff == Row(d, k).USA_WIND - start_wind_speed
         IN  IF time_diff >= timedelta(1) THEN NoIndex
             ELSE IF wind_speed_diff >= 30 THEN k
             ELSE extract_from_exclusive(d, start_time, start_wind_speed, k + 1)

\* extract_from comparing the wind speed itself, not its increase
RECURSIVE extract_from_absolute(_, _, _, _)
extract_from_absolute(d, start_time, start_wind_speed, k) ==
    IF k >= Len(d) THEN NoIndex
    ELSE LET time_diff == strptime(Row(d, k).ISO_TIME) - start_time
         IN  IF time_diff > timedelta(1) THEN NoIndex
             ELSE IF Row(d, k).USA_WIND >= 30 THEN k
             ELSE extract_from_absolute(d, start_time, start_wind_speed, k + 1)

\* extract_from without the break after the append: the last qualifying
\* row of the window ends the episode
RECURSIVE extract_from_last(_, _, _, _)
extract_from_last(d, start_time, start_wind_speed, k) ==
    IF k >= Len(d) THEN NoIndex
    ELSE LET time_diff == strptime(Row(d, k).ISO_TIME) - start_time
             wind_speed_diff == Row(d, k).USA_WIND - start_wind_speed
             later == extract_from_last(d, start_time, start_wind_speed, k + 1)
         IN  IF time_diff > timedelta(1) THEN NoIndex
             ELSE IF later # NoIndex THEN later
             ELSE IF wind_speed_diff >= 30 THEN k
             ELSE NoIndex

\* lines 60-72: the extraction scan from row k on; the index j of the row
\* that ends the episode, NoIndex when the loop ends without appending
RECURSIVE extract_from(_, _, _, _)
extract_from(d, start_time, start_wind_speed, k) ==
    IF k >= Len(d) THEN NoIndex
    ELSE LET time_diff == strptime(Row(d, k).ISO_TIME) - start_time
             wind_speed_diff == Row(d, k).USA_WIND - start_wind_speed
         IN  IF time_diff > timedelta(1) THEN NoIndex
             ELSE IF wind_speed_diff >= 30 THEN k
             ELSE extract_from(d, start_time, start_wind_speed, k + 1)

\* line 71: the row appended for start row n and end row j
episode(d, n, j) ==
    LET start_time == strptime(Row(d, n).ISO_TIME)
        end_time == strptime(Row(d, j).ISO_TIME)
    IN  [hurricane_name |-> Row(d, n).NAME,
         start_time |-> start_time,
         start_wind_speed |-> Row(d, n).USA_WIND,
         lat_start |-> Row(d, n).LAT,
         lon_start |-> Row(d, n).LON,
         end_time |-> end_time,
         end_wind_speed |-> Row(d, j).USA_WIND,
         lat_end |-> Row(d, j).LAT,
         lon_end |-> Row(d, j).LON,
         wind_speed_change |-> Row(d, j).USA_WIND - Row(d, n).USA_WIND,
         duration |-> end_time - start_time]

ResultColumns ==
    <<"hurricane_name", "start_time", "start_wind_speed", "lat_start",
      "lon_start", "end_time", "end_wind_speed", "lat_end", "lon_end",
      "wind_speed_change", "duration">>

\* lines 76-77: DataFrame(results).to_csv(file): the file is replaced by the
\* printed table
results_to_csv(old, rows) ==
    Table(ResultColumns,
          [n \in 1..Len(rows) |->
              [rows[n] EXCEPT !.start_time = isoformat(@),
                              !.end_time = isoformat(@)]])

\* line 34
ReadTracks ==
    /\ script = "HI_finder" /\ pc = "read"
    /\ df' = fs["ibtracs_data.csv"].rows
    /\ i' = 0
    /\ results' = <<>>
    /\ resIdx' = <<>>
    /\ pc' = "scan"
    /\ UNCHANGED <<script, runs, fs, lastOut, matVars, plotVars>>

\* lines 52-72: one iteration of the outer loop.  An exception of
\* is_intensifying is caught nowhere: the run ends there, before to_csv.
\* The results loop parses only rows is_intensifying has parsed.
ScanStep ==
    /\ script = "HI_finder" /\ pc = "scan"
    /\ i < Len(df)
    /\ IF is_intensifying_raises(df, i)
       THEN /\ pc' = "aborted"
            /\ UNCHANGED <<i, results, resIdx>>
       ELSE /\ LET j == extract_from(df, strptime(Row(df, i).ISO_TIME),
                                     Row(df, i).USA_WIND, i + 1)
               IN  IF is_intensifying(df, i) /\ j # NoIndex
                   THEN /\ results' = Append(results, episode(df, i, j))
                        /\ resIdx' = Append(resIdx, <<i, j>>)
                   ELSE UNCHANGED <<results, resIdx>>
            /\ i' = i + 1
            /\ pc' = pc
    /\ UNCHANGED <<script, runs, fs, lastOut, df, matVars, plotVars>>

\* lines 75-77
WriteResults ==
    /\ script = "HI_finder" /\ pc = "scan"
    /\ i >= Len(df)
    /\ fs' = [fs EXCEPT !["intensifications.csv"] = results_to_csv(@, results)]
    /\ pc' = "done"
    /\ UNCHANGED <<script, runs, lastOut, detVars, matVars, plotVars>>

InitDetector ==
    /\ script = "HI_finder"
    /\ pc = "read"
    /\ runs = 1
    /\ \E t \in TrackTables :
          fs = [f \in FileNames |->
                  IF f = "ibtracs_data.csv" THEN Table(TrackColumns, t)
                  ELSE IF f = "intensifications.csv" THEN StaleTable
                  ELSE NoFile]
    /\ lastOut = <<>>
    /\ DetIdle /\ MatIdle /\ PlotIdle

InitDetectorErr ==
    /\ script = "HI_finder"
    /\ pc = "read"
    /\ runs = 1
    /\ \E t \in ErrTrackTables :
          fs = [f \in FileNames |->
                  IF f = "ibtracs_data.csv" THEN Table(TrackColumns, t)
                  ELSE IF f = "intensifications.csv" THEN StaleTable
                  ELSE NoFile]
    /\ lastOut = <<>>
    /\ DetIdle /\ MatIdle /\ PlotIdle

-----------------------------------------------------------------------------
(* compound_mhw_RI.py: inputs *)

DateText(mo, dd, yyyy) == [mo |-> mo, dd |-> dd, yyyy |-> yyyy]

HiColumns ==
    <<"HI_lat", "HI_lon", "HI_name", "start_time", "start_wind_speed",
      "end_time", "end_wind_speed">>

\* RI episodes 39 km and 222 km from the MHW cell, starting on 2020-08-10
\* 00:00 or on 2020-08-09 18:00
HiRows ==
    {[HI_lat |-> p[1], HI_lon |-> p[2], HI_name |-> "A", start_time |-> st,
      start_wind_speed |-> 30, end_time |-> TimeText(8, 11, 2020, 0, 0),
      end_wind_speed |-> 60] :
        p \in Points \ {<<250, -900>>},
        st \in {TimeText(8, 10, 2020, 0, 0), TimeText(8, 9, 2020, 18, 0)}}

\* the intensity_* and rate_* columns are all copied the way intensity_mean
\* and intensity_max are; they are not listed one by one
MhwColumns ==
    <<"MHW_lat", "MHW_lon", "date_start", "date_peak", "date_end", "duration",
      "intensity_mean", "intensity_max">>

\* a row of the MHW file; missing is the set of its cells that are empty
MhwRow(date_start, date_end, missing) ==
    [MHW_lat |-> 250, MHW_lon |-> -900, date_start |-> date_start,
     date_peak |-> date_start, date_end |-> date_end, duration |-> 5,
     intensity_mean |-> 15, intensity_max |-> 21, missing |-> missing]

\* (start, end) of the MHW events, against RI starts on 2020-08-09 18:00
\* and 2020-08-10 00:00: ending on the first day of the window; spanning
\* the window; inside it; starting on its last day
MhwSpans ==
    {<<DateText(7, 30, 2020), DateText(7, 31, 2020)>>,
     <<DateText(7, 30, 2020), DateText(8, 11, 2020)>>,
     <<DateText(8, 1, 2020), DateText(8, 5, 2020)>>,
     <<DateText(8, 10, 2020), DateText(8, 11, 2020)>>}

MhwRows ==
    {MhwRow(sp[1], sp[2], {}) : sp \in MhwSpans}
        \cup {MhwRow(DateText(8, 1, 2020), DateText(8, 5, 2020), {"intensity_max"})}

BadDateText == DateText(2, 30, 2020)

\* RI rows 39 km and 222 km from the MHW cell, with a start_time that
\* parses or with the bad text
ErrHiRows ==
    {h \in HiRows : h.start_time = TimeText(8, 10, 2020, 0, 0)}
        \cup {[h EXCEPT !.start_time = BadTimeText] : h \in HiRows}

\* MHW rows with dates that parse, with a bad date_start, with a bad
\* date_end, and one with a bad date_start and an empty cell
ErrMhwRows ==
    {MhwRow(DateText(8, 1, 2020), DateText(8, 5, 2020), {}),
     MhwRow(BadDateText, DateText(8, 5, 2020), {}),
     MhwRow(DateText(8, 1, 2020), BadDateText, {}),
     MhwRow(BadDateText, DateText(8, 5, 2020), {"intensity_max"})}

-----------------------------------------------------------------------------
(* compound_mhw_RI.py: the script *)

\* every row kept, whatever cells it lacks
dropna_keeps_all(rows) ==
    [k \in 1..Len(rows) |-> [label |-> k - 1, row |-> rows[k]]]

\* line 53: .dropna() keeps the rows without a missing value, under their
\* original labels
dropna(rows) ==
    SelectSeq([k \in 1..Len(rows) |-> [label |-> k - 1, row |-> rows[k]]],
              LAMBDA r : r.row.missing = {})

\* hi_filter accepting every MHW event that overlaps the 10 days up to the
\* RI start
hi_filter_overlap(mhw_row, row) ==
    IF calc_dist(mhw_row.MHW_lat, mhw_row.MHW_lon, row.HI_lat, row.HI_lon) <= km(200)
    THEN /\ to_datetime(mhw_row.date_start) <= strptime(row.start_time)
         /\ to_datetime(mhw_row.date_end) >= strptime(row.start_time) - timedelta(10)
    ELSE FALSE

\* hi_filter with the start-date and end-date tests joined by "and"
hi_filter_both(mhw_row, row) ==
    LET mhw_lat == mhw_row.MHW_lat
        mhw_lon == mhw_row.MHW_lon
    IN  IF calc_dist(mhw_lat, mhw_lon, row.HI_lat, row.HI_lon) <= km(200)
        THEN /\ /\ to_datetime(mhw_row.date_start) >= strptime(row.start_time) - timedelta(10)
                /\ to_datetime(mhw_row.date_start) <= strptime(row.start_time)
             /\ /\ to_datetime(mhw_row.date_end) >= strptime(row.start_time) - timedelta(10)
                /\ to_datetime(mhw_row.date_end) <= strptime(row.start_time)
        ELSE FALSE

\* lines 93-97: the row filter of hi_df.apply
hi_filter(mhw_row, row) ==
    LET mhw_lat == mhw_row.MHW_lat
        mhw_lon == mhw_row.MHW_lon
    IN  IF calc_dist(mhw_lat, mhw_lon, row.HI_lat, row.HI_lon) <= km(200)
        THEN \/ /\ to_datetime(mhw_row.date_start) >= strptime(row.start_time) - timedelta(10)
                /\ to_datetime(mhw_row.date_start) <= strptime(row.start_time)
             \/ /\ to_datetime(mhw_row.date_end) >= strptime(row.start_time) - timedelta(10)
                /\ to_datetime(mhw_row.date_end) <= strptime(row.start_time)
        ELSE FALSE

\* lines 88-98: the iteration for mhw_row raises ValueError.  Lines 88-89
\* parse both dates of the MHW row; the lambda parses the start_time of an
\* RI row only after "calc_dist(...) <= 200 and", which short-circuits.
match_raises(mhw_row, hi) ==
    \/ ~matches_date_format(mhw_row.date_start)
    \/ ~matches_date_format(mhw_row.date_end)
    \/ \E h \in 1..Len(hi) :
          /\ calc_dist(mhw_row.MHW_lat, mhw_row.MHW_lon, hi[h].HI_lat, hi[h].HI_lon)
                <= km(200)
          /\ ~matches_format(hi[h].start_time)

\* lines 92-98: labels of the RI rows that pass the filter, in table order
hi_df_filtered(mhw_row, hi) ==
    SelectSeq([k \in 1..Len(hi) |-> k - 1],
              LAMBDA h : hi_filter(mhw_row, Row(hi, h)))

\* window_start with the test of hi_df_filtered.empty inverted
window_start_inverted(mhw_start, hi_date, filtered) ==
    IF filtered = <<>> THEN td_days(mhw_start - hi_date) ELSE NaN

\* window_start with the operands of the subtraction exchanged
window_start_swapped(mhw_start, hi_date, filtered) ==
    IF filtered # <<>> THEN td_days(hi_date - mhw_start) ELSE NaN

\* lines 108-111
window_start(mhw_start, hi_date, filtered) ==
    IF filtered # <<>> THEN td_days(mhw_start - hi_date) ELSE NaN

\* window_end with the operands of the subtraction exchanged
window_end_swapped(mhw_end, hi_date, filtered) ==
    IF filtered # <<>> THEN td_days(hi_date - mhw_end) ELSE NaN

\* lines 113-116
window_end(mhw_end, hi_date, filtered) ==
    IF filtered # <<>> THEN td_days(mhw_end - hi_date) ELSE NaN

\* lines 103-134: the record appended for one filtered RI row; a column of
\* result_df the dictionary does not set (window_peak) is NaN
result_dict(mhw_row, hi_row, filtered) ==
    LET mhw_start == to_datetime(mhw_row.date_start)
        mhw_end == to_datetime(mhw_row.date_end)
        hi_date == strptime(hi_row.start_time)
    IN  [HI_lat |-> hi_row.HI_lat, HI_lon |-> hi_row.HI_lon,
         HI_date |-> hi_date, HI_name |-> hi_row.HI_name,
         MHW_lon |-> mhw_row.MHW_lon, MHW_lat |-> mhw_row.MHW_lat,
         distance_in_km |->
             calc_dist(mhw_row.MHW_lat, mhw_row.MHW_lon, hi_row.HI_lat, hi_row.HI_lon),
         start_wind_speed |-> hi_row.start_wind_speed,
         end_time |-> hi_row.end_time,
         end_wind_speed |-> hi_row.end_wind_speed,
         duration |-> mhw_row.duration,
         date_start |-> mhw_start,
         date_peak |-> mhw_row.date_peak,
         date_end |-> mhw_end,
         intensity_mean |-> mhw_row.intensity_mean,
         intensity_max |-> mhw_row.intensity_max,
         window_start |-> window_start(mhw_start, hi_date, filtered),
         window_peak |-> NaN,
         window_end |-> window_end(mhw_end, hi_date, filtered)]

MatchColumns ==
    <<"HI_lat", "HI_lon", "HI_date", "HI_name", "MHW_lat", "MHW_lon",
      "distance_in_km", "start_wind_speed", "end_time", "end_wind_speed",
      "duration", "date_start", "date_peak", "date_end", "intensity_mean",
      "intensity_max", "window_start", "window_peak", "window_end">>

\* result_df.to_csv(file, mode='a'): the printed rows are added to the file
result_to_csv_append(old, rows) ==
    Table(MatchColumns,
          old.rows \o
          [n \in 1..Len(rows) |->
              [rows[n] EXCEPT !.HI_date = isoformat(@),
                              !.date_start = isoformat(@),
                              !.date_end = isoformat(@)]])

\* line 141: result_df.to_csv(file): the file is replaced by the printed table
result_to_csv(old, rows) ==
    Table(MatchColumns,
          [n \in 1..Len(rows) |->
              [rows[n] EXCEPT !.HI_date = isoformat(@),
                              !.date_start = isoformat(@),
                              !.date_end = isoformat(@)]])

\* the unmatched rows of one MHW row, appended whenever no RI row is
\* within 200 km (the time window not consulted)
no_ri_rows_distance_only(mhw_row, filtered) ==
    IF \A h \in 1..Len(hi_df) :
          calc_dist(mhw_row.MHW_lat, mhw_row.MHW_lon, hi_df[h].HI_lat, hi_df[h].HI_lon)
              > km(200)
    THEN <<mhw_row>> ELSE <<>>

\* lines 137-138: the rows appended to no_ri_df for one MHW row
no_ri_rows(mhw_row, filtered) ==
    IF filtered = <<>> THEN <<mhw_row>> ELSE <<>>

\* line 144: no_ri_df.to_csv(file)
no_ri_to_csv(old, rows) == Table(MhwColumns, rows)

\* lines 50-81
ReadTables ==
    /\ script = "compound_mhw_RI" /\ pc = "read"
    /\ hi_df' = fs["intensifications30_IID_24.csv"].rows
    /\ mhw_df' = dropna(fs["MHW_1940_2022_80_52.csv"].rows)
    /\ result_df' = <<>>
    /\ no_ri_df' = <<>>
    /\ pairIdx' = <<>>
    /\ noRiIdx' = <<>>
    /\ mhw_pos' = 0
    /\ pc' = "match"
    /\ UNCHANGED <<script, runs, fs, lastOut, detVars, plotVars>>

\* lines 84-138: one iteration of the loop over the MHW rows
MatchStep ==
    /\ script = "compound_mhw_RI" /\ pc = "match"
    /\ mhw_pos < Len(mhw_df)
    /\ IF match_raises(mhw_df[mhw_pos + 1].row, hi_df)
       THEN /\ pc' = "aborted"
            /\ UNCHANGED <<mhw_pos, result_df, no_ri_df, pairIdx, noRiIdx>>
       ELSE /\ LET mhw_idx == mhw_df[mhw_pos + 1].label
                   mhw_row == mhw_df[mhw_pos + 1].row
                   filtered == hi_df_filtered(mhw_row, hi_df)
               IN  /\ result_df' = result_df \o
                         [k \in 1..Len(filtered) |->
                             result_dict(mhw_row, Row(hi_df, filtered[k]), filtered)]
                   /\ pairIdx' = pairIdx \o
                         [k \in 1..Len(filtered) |-> <<mhw_idx, filtered[k]>>]
                   /\ no_ri_df' = no_ri_df \o no_ri_rows(mhw_row, filtered)
                   /\ noRiIdx' = noRiIdx \o
                         [k \in 1..Len(no_ri_rows(mhw_row, filtered)) |-> mhw_idx]
            /\ mhw_pos' = mhw_pos + 1
            /\ pc' = pc
    /\ UNCHANGED <<script, runs, fs, lastOut, hi_df, mhw_df, detVars, plotVars>>

\* line 141
SaveResult ==
    /\ script = "compound_mhw_RI" /\ pc = "match"
    /\ mhw_pos >= Len(mhw_df)
    /\ fs' = [fs EXCEPT !["MHW_info_80_52_24.csv"] = result_to_csv(@, result_df)]
    /\ pc' = "save_no_ri"
    /\ UNCHANGED <<script, runs, lastOut, detVars, matVars, plotVars>>

\* line 144
SaveNoRi ==
    /\ script = "compound_mhw_RI" /\ pc = "save_no_ri"
    /\ fs' = [fs EXCEPT !["no_RI.csv"] = no_ri_to_csv(@, no_ri_df)]
    /\ pc' = "done"
    /\ UNCHANGED <<script, runs, lastOut, detVars, matVars, plotVars>>

InitMatcher ==
    /\ script = "compound_mhw_RI"
    /\ pc = "read"
    /\ runs = 1
    /\ \E h \in SeqsUpTo(HiRows, MaxHi) : \E m \in SeqsUpTo(MhwRows, MaxMhw) :
          fs = [f \in FileNames |->
                  IF f = "intensifications30_IID_24.csv" THEN Table(HiColumns, h)
                  ELSE IF f = "MHW_1940_2022_80_52.csv" THEN Table(MhwColumns, m)
                  ELSE IF f \in {"MHW_info_80_52_24.csv", "no_RI.csv"} THEN StaleTable
                  ELSE NoFile]
    /\ lastOut = <<>>
    /\ DetIdle /\ MatIdle /\ PlotIdle

InitMatcherErr ==
    /\ script = "compound_mhw_RI"
    /\ pc = "read"
    /\ runs = 1
    /\ \E h \in SeqsUpTo(ErrHiRows, MaxHi) : \E m \in SeqsUpTo(ErrMhwRows, MaxMhw) :
          fs = [f \in FileNames |->
                  IF f = "intensifications30_IID_24.csv" THEN Table(HiColumns, h)
                  ELSE IF f = "MHW_1940_2022_80_52.csv" THEN Table(MhwColumns, m)
                  ELSE IF f \in {"MHW_info_80_52_24.csv", "no_RI.csv"} THEN StaleTable
                  ELSE NoFile]
    /\ lastOut = <<>>
    /\ DetIdle /\ MatIdle /\ PlotIdle

-----------------------------------------------------------------------------
(* TCHP_plot.py, LHF_plot.py, VWS_plot.py: the mean field of the 10 days   *)
(* up to each RI start date.                                               *)
(* A field is a tuple of cell values, in thousandths of its unit; the      *)
(* fields of the model are already clipped to the Gulf and hold no -999.   *)
(* nc.daily is the set of day numbers (days since 2020-01-01) that have a  *)
(* daily OHC file; nc.yearly says whether the ERA5 file of 2020 exists and *)
(* nc.times is the set of datetimes stored in it.                          *)

MaxDates == 2

EnvScripts == {"TCHP_plot", "LHF_plot", "VWS_plot"}

\* the HI_date column: two RI dates 17 days apart and one after 2022
RiDateTexts == {DateText(8, 10, 2020), DateText(8, 27, 2020), DateText(4, 15, 2023)}

RiDateRows == {[HI_date |-> t] : t \in RiDateTexts}

\* the days data may exist for: two in the window of the first RI date,
\* one in the window of the second
DataTimes ==
    {to_datetime(DateText(8, 9, 2020)), to_datetime(DateText(8, 10, 2020)),
     to_datetime(DateText(8, 27, 2020))}

\* the OHC field stored for a day
OhcField(t) == <<(t \div 1440) * 1000, 300000 - (t \div 1440) * 1000>>

\* the mslhf field stored for a time (latent heat flux is negative upward)
LhfField(t) == <<-((t \div 1440) * 1000), -(300000 - (t \div 1440) * 1000)>>

\* the wind components stored for a time at 200 and 850 hPa
WindComponents(t) ==
    [u200 |-> <<6000 + 100 * ((t \div 1440) % 10), 9000>>,
     u850 |-> <<3000, 1000>>,
     v200 |-> <<4000, 5000 + 100 * ((t \div 1440) % 10)>>,
     v850 |-> <<1000, 2000>>]

field_add(a, b) == [c \in 1..Len(a) |-> a[c] + b[c]]

field_div(a, n) == [c \in 1..Len(a) |-> fdiv(a[c], n)]

RECURSIVE field_sum(_)
field_sum(values) ==
    IF Len(values) = 1 THEN values[1]
    ELSE field_add(values[1], field_sum(Tail(values)))

\* np.nanmean(values, axis=0) and np.mean(values, axis=0) of a non-empty
\* list of fields without NaN
np_nanmean(values) == field_div(field_sum(values), Len(values))

\* date - timedelta(days=delta) for delta in range(10)
target_dates(date) == [n \in 1..10 |-> date - timedelta(n - 1)]

\* TCHP_plot.py lines 69-93
load_and_clip_ohc_data(date, files) ==
    LET found == SelectSeq(target_dates(date), LAMBDA t : (t \div 1440) \in files.daily)
        ohc_values == [n \in 1..Len(found) |-> OhcField(found[n])]
    IN  IF ohc_values # <<>> THEN np_nanmean(ohc_values) ELSE None

\* LHF_plot.py lines 59-90
load_and_clip_lhf_data(date, files) ==
    LET found == IF files.yearly
                 THEN SelectSeq(target_dates(date), LAMBDA t : t \in files.times)
                 ELSE <<>>
        lhf_values == [n \in 1..Len(found) |-> LhfField(found[n])]
    IN  IF lhf_values # <<>> THEN np_nanmean(lhf_values) ELSE None

load_field(date, files) ==
    IF script = "TCHP_plot" THEN load_and_clip_ohc_data(date, files)
    ELSE load_and_clip_lhf_data(date, files)

\* VWS_plot.py lines 63-97: the components dictionary after the loop over
\* the 10 days; a component without data is None
components(date, files) ==
    LET found == IF files.yearly
                 THEN SelectSeq(target_dates(date), LAMBDA t : t \in files.times)
                 ELSE <<>>
        mean(key) == IF found # <<>>
                     THEN np_nanmean([n \in 1..Len(found) |-> WindComponents(found[n])[key]])
                     ELSE None
    IN  [u200 |-> mean("u200"), u850 |-> mean("u850"),
         v200 |-> mean("v200"), v850 |-> mean("v850")]

\* VWS_plot.py line 99, on components that are fields
wind_shear(comp) ==
    [c \in 1..Len(comp.u200) |->
        np_sqrt((comp.u200[c] - comp.u850[c]) * (comp.u200[c] - comp.u850[c])
                + (comp.v200[c] - comp.v850[c]) * (comp.v200[c] - comp.v850[c]))]

\* the three scripts start alike: read the RI table, parse HI_date, keep
\* the dates of 2013-2022 (every date of the model is later than 2013)
LoadRiDates ==
    /\ script \in EnvScripts /\ pc = "read"
    /\ LET rows == fs["intensifications30_IID_24.csv"].rows
           HI_date == [n \in 1..Len(rows) |-> to_datetime(rows[n].HI_date)]
       IN  ri_dates' = SelectSeq(HI_date,
                                 LAMBDA t : t <= to_datetime(DateText(12, 31, 2022)))
    /\ date_pos' = 0
    /\ aggregate' = None
    /\ all_wind_shear' = <<>>
    /\ pc' = "dates"
    /\ UNCHANGED <<script, runs, fs, lastOut, nc, detVars, matVars, gridVars, distVars>>

\* TCHP_plot.py lines 99-105, LHF_plot.py lines 96-102: one RI date
AggregateStep ==
    /\ script \in {"TCHP_plot", "LHF_plot"} /\ pc = "dates"
    /\ date_pos < Len(ri_dates)
    /\ LET ohc_data == load_field(ri_dates[date_pos + 1], nc)
       IN  aggregate' = IF ohc_data # None
                        THEN (IF aggregate = None THEN ohc_data
                              ELSE field_add(aggregate, ohc_data))
                        ELSE aggregate
    /\ date_pos' = date_pos + 1
    /\ UNCHANGED <<script, pc, runs, fs, lastOut, ri_dates, nc, all_wind_shear,
                   detVars, matVars, gridVars, distVars>>

\* TCHP_plot.py lines 107-108, LHF_plot.py lines 104-105
AggregateMean ==
    /\ script \in {"TCHP_plot", "LHF_plot"} /\ pc = "dates"
    /\ date_pos >= Len(ri_dates)
    /\ aggregate' = IF aggregate # None THEN field_div(aggregate, Len(ri_dates))
                     ELSE aggregate
    /\ pc' = "plot"
    /\ UNCHANGED <<script, runs, fs, lastOut, ri_dates, nc, date_pos, all_wind_shear,
                   detVars, matVars, gridVars, distVars>>

\* TCHP_plot.py lines 111-148: aggregate_ohc.shape of None raises
\* AttributeError (line 118).  LHF_plot.py lines 108-132: abs(None) raises
\* TypeError (line 108).  Otherwise the figure is drawn and saved.
PlotField ==
    /\ script \in {"TCHP_plot", "LHF_plot"} /\ pc = "plot"
    /\ IF aggregate = None
       THEN pc' = "aborted" /\ UNCHANGED aggregate
       ELSE /\ pc' = "done"
            /\ aggregate' = IF script = "LHF_plot"
                             THEN [c \in 1..Len(aggregate) |->
                                      IF aggregate[c] < 0 THEN -aggregate[c]
                                      ELSE aggregate[c]]
                             ELSE aggregate
    /\ UNCHANGED <<script, runs, fs, lastOut, ri_dates, nc, date_pos, all_wind_shear,
                   detVars, matVars, gridVars, distVars>>

\* VWS_plot.py lines 104-106 with load_wind_components: one RI date.  With
\* no data for the date the components are None and line 99 raises
\* TypeError (None - None).
WindShearStep ==
    /\ script = "VWS_plot" /\ pc = "dates"
    /\ date_pos < Len(ri_dates)
    /\ LET comp == components(ri_dates[date_pos + 1], nc)
       IN  IF comp.u200 = None
           THEN pc' = "aborted" /\ UNCHANGED <<date_pos, all_wind_shear>>
           ELSE /\ all_wind_shear' = Append(all_wind_shear, wind_shear(comp))
                /\ date_pos' = date_pos + 1
                /\ pc' = pc
    /\ UNCHANGED <<script, runs, fs, lastOut, ri_dates, nc, aggregate,
                   detVars, matVars, gridVars, distVars>>

\* VWS_plot.py lines 109-129: the mean over the RI dates and the figure.
\* np.nanmean of an empty list is a scalar NaN, whose shape[0] raises
\* IndexError (line 116).
WindShearMean ==
    /\ script = "VWS_plot" /\ pc = "dates"
    /\ date_pos >= Len(ri_dates)
    /\ IF all_wind_shear = <<>>
       THEN pc' = "aborted" /\ UNCHANGED aggregate
       ELSE pc' = "done" /\ aggregate' = np_nanmean(all_wind_shear)
    /\ UNCHANGED <<script, runs, fs, lastOut, ri_dates, nc, date_pos, all_wind_shear,
                   detVars, matVars, gridVars, distVars>>

\* the files each script looks for: daily OHC files, or the yearly ERA5
\* file with the times it holds
NcFiles ==
    IF script = "TCHP_plot"
    THEN {[daily |-> {t \div 1440 : t \in T}, yearly |-> FALSE, times |-> {}] :
             T \in SUBSET DataTimes}
    ELSE {[daily |-> {}, yearly |-> FALSE, times |-> {}]}
            \cup {[daily |-> {}, yearly |-> TRUE, times |-> T] : T \in SUBSET DataTimes}

EnvInit ==
    /\ script \in EnvScripts
    /\ pc = "read"
    /\ runs = 1
    /\ \E d \in SeqsUpTo(RiDateRows, MaxDates) :
          fs = [f \in FileNames |->
                  IF f = "intensifications30_IID_24.csv" THEN Table(<<"HI_date">>, d)
                  ELSE NoFile]
    /\ lastOut = <<>>
    /\ nc \in NcFiles
    /\ ri_dates = <<>> /\ date_pos = 0 /\ aggregate = None /\ all_wind_shear = <<>>
    /\ DetIdle /\ MatIdle /\ GridIdle /\ DistIdle

EnvNext ==
    \/ LoadRiDates \/ AggregateStep \/ AggregateMean \/ PlotField
    \/ WindShearStep \/ WindShearMean

EnvSpec == EnvInit /\ [][EnvNext]_vars

-----------------------------------------------------------------------------
(* RI_reg_prob_plot.py and conditional_mhw_ri_prob.py: counts of events on *)
(* the 1-degree grid.  Cell (i, j) is element [<<i, j>>] of a grid; row 0  *)
(* is the northernmost.                                                    *)

MaxEvents == 2
MaxHurr == 1

GridScripts == {"RI_reg_prob_plot", "conditional_mhw_ri_prob"}

\* np.arange(lat_min, lat_max + grid_size, grid_size), in tenths of a degree
lat_edges == [n \in 1..17 |-> 150 + 10 * (n - 1)]

\* np.arange(lon_min, lon_max + grid_size, grid_size), in tenths of a degree
lon_edges == [n \in 1..23 |-> -1000 + 10 * (n - 1)]

\* len(lat_centers) and len(lon_centers): one centre per pair of edges
len_lat_centers == Len(lat_edges) - 1

len_lon_centers == Len(lon_edges) - 1

Cells == (0..(len_lat_centers - 1)) \X (0..(len_lon_centers - 1))

\* np.zeros((len(lat_centers), len(lon_centers)))
np_zeros == [cell \in Cells |-> 0]

\* np.searchsorted(a, v, 'right'): the number of elements of a that are <= v
searchsorted_right(a, v) == Cardinality({n \in 1..Len(a) : a[n] <= v})

\* np.searchsorted(a, v, 'left'): the number of elements of a that are < v
searchsorted_left(a, v) == Cardinality({n \in 1..Len(a) : a[n] < v})

i_lat_of(hi_lat) == Len(lat_edges) - searchsorted_right(lat_edges, hi_lat) - 1

i_lon_of(hi_lon) == searchsorted_left(lon_edges, hi_lon) - 1

Max(a, b) == IF a >= b THEN a ELSE b

Min(a, b) == IF a <= b THEN a ELSE b

\* the two range() of the increment loops with i_lat + 1 for i_lat + 2
increment_cells_short(i_lat, i_lon) ==
    {<<a, b>> : a \in Max(0, i_lat - 1)..(Min(i_lat + 1, len_lat_centers) - 1),
                b \in Max(0, i_lon - 1)..(Min(i_lon + 2, len_lon_centers) - 1)}

\* the cells the two nested range() loops visit
increment_cells(i_lat, i_lon) ==
    {<<a, b>> : a \in Max(0, i_lat - 1)..(Min(i_lat + 2, len_lat_centers) - 1),
                b \in Max(0, i_lon - 1)..(Min(i_lon + 2, len_lon_centers) - 1)}

\* grid_counts[i, j] += 1 over those cells
increment(counts, i_lat, i_lon) ==
    [cell \in Cells |->
        counts[cell] + (IF cell \in increment_cells(i_lat, i_lon) THEN 1 ELSE 0)]

EventNames == {"A", "B", "NOT_NAMED"}

\* RI events: in the south-west corner cell (15, 0); two points of the
\* interior cell (5, 9); north of the grid
EventRows ==
    {[HI_lat |-> 155, HI_lon |-> -995, HI_name |-> "A"],
     [HI_lat |-> 255, HI_lon |-> -905, HI_name |-> "A"],
     [HI_lat |-> 255, HI_lon |-> -905, HI_name |-> "B"],
     [HI_lat |-> 257, HI_lon |-> -903, HI_name |-> "A"],
     [HI_lat |-> 255, HI_lon |-> -905, HI_name |-> "NOT_NAMED"],
     [HI_lat |-> 315, HI_lon |-> -905, HI_name |-> "A"]}

\* rows of the RI table as conditional_mhw_ri_prob.py needs them, with the
\* columns i_HI_lat and i_HI_lon
HurrRows ==
    {[i_HI_lat |-> 5, i_HI_lon |-> 9, HI_name |-> "A"],
     [i_HI_lat |-> 15, i_HI_lon |-> 0, HI_name |-> "A"]}

\* the order of the group keys: by HI_lat, then HI_lon, then HI_name
key_lt(x, y) ==
    \/ x.HI_lat < y.HI_lat
    \/ x.HI_lat = y.HI_lat /\ x.HI_lon < y.HI_lon
    \/ /\ x.HI_lat = y.HI_lat /\ x.HI_lon = y.HI_lon
       /\ <<x.HI_name, y.HI_name>> \in
              {<<"A", "B">>, <<"A", "NOT_NAMED">>, <<"B", "NOT_NAMED">>}

RECURSIVE sorted_keys(_)
sorted_keys(S) ==
    IF S = {} THEN <<>>
    ELSE LET m == CHOOSE x \in S : \A y \in S \ {x} : key_lt(x, y)
         IN  <<m>> \o sorted_keys(S \ {m})

\* hi_data.groupby(['HI_lat', 'HI_lon', 'HI_name']): the distinct keys, sorted
groupby(rows) == sorted_keys({rows[n] : n \in 1..Len(rows)})

\* hi_data.assign(i_HI_lat=..., i_HI_lon=...)
assign(rows) ==
    [n \in 1..Len(rows) |->
        [i_HI_lat |-> i_lat_of(rows[n].HI_lat), i_HI_lon |-> i_lon_of(rows[n].HI_lon),
         HI_name |-> rows[n].HI_name]]

\* sort_values(by=['i_HI_lat', 'i_HI_lon']): rows with equal keys keep their order
RECURSIVE sort_values(_)
sort_values(rows) ==
    IF rows = <<>> THEN <<>>
    ELSE LET rest == sort_values(SubSeq(rows, 1, Len(rows) - 1))
             x == rows[Len(rows)]
             n == Cardinality({k \in 1..Len(rest) :
                      \/ rest[k].i_HI_lat < x.i_HI_lat
                      \/ rest[k].i_HI_lat = x.i_HI_lat /\ rest[k].i_HI_lon <= x.i_HI_lon})
         IN  SubSeq(rest, 1, n) \o <<x>> \o SubSeq(rest, n + 1, Len(rest))

\* counted without the test against the set of storms already seen
counted_every_row(row, seen, rows, pos) == row.HI_name # "NOT_NAMED"

\* counted with the loop left at the first 'NOT_NAMED' row (break for
\* continue): no row from that one on is counted
counted_until_not_named(row, seen, rows, pos) ==
    /\ \A k \in 1..(pos + 1) : rows[k].HI_name # "NOT_NAMED"
    /\ <<row.i_HI_lat, row.i_HI_lon, row.HI_name>> \notin seen

\* conditional_mhw_ri_prob.py lines 85-89: the row is named and its
\* (cell, storm) key has not been seen
counted(row, seen, rows, pos) ==
    /\ row.HI_name # "NOT_NAMED"
    /\ <<row.i_HI_lat, row.i_HI_lon, row.HI_name>> \notin seen

\* the division taken by the number of rows less one
probabilities_rows_less_one(counts, total_mhw_events) ==
    [cell \in Cells |->
        IF total_mhw_events <= 1 THEN "inf"
        ELSE fdiv(100 * 1000 * counts[cell], total_mhw_events - 1)]

\* 100 * (grid_counts / total_mhw_events), in thousandths of a percent;
\* numpy divides by zero without raising: 0/0 is nan, x/0 is inf
probabilities(counts, total_mhw_events) ==
    [cell \in Cells |->
        IF total_mhw_events = 0 THEN (IF counts[cell] = 0 THEN NaN ELSE "inf")
        ELSE fdiv(100 * 1000 * counts[cell], total_mhw_events)]

\* RI_reg_prob_plot.py lines 58-63; conditional_mhw_ri_prob.py lines 59-78
LoadEvents ==
    /\ script \in GridScripts /\ pc = "read"
    /\ dataa' = IF script = "RI_reg_prob_plot"
                THEN groupby(fs["intensifications30_IID_24.csv"].rows)
                ELSE sort_values(assign(fs["MHW_info_41_24.csv"].rows))
    /\ data' = <<>>
    /\ row_pos' = 0
    /\ grid_counts' = np_zeros
    /\ hurr_counts' = IF script = "RI_reg_prob_plot" THEN <<>> ELSE np_zeros
    /\ grid_probs' = np_zeros
    /\ unique_hurr' = {}
    /\ unique_hurricanes' = {}
    /\ pc' = "count"
    /\ UNCHANGED <<script, runs, fs, lastOut, detVars, matVars, envVars, distVars>>

\* RI_reg_prob_plot.py lines 66-77 (one group); conditional_mhw_ri_prob.py
\* lines 81-97 (one row)
CountStep ==
    /\ script \in GridScripts /\ pc = "count"
    /\ row_pos < Len(dataa)
    /\ LET row == dataa[row_pos + 1]
       IN  IF script = "RI_reg_prob_plot"
           THEN /\ grid_counts' = increment(grid_counts, i_lat_of(row.HI_lat),
                                            i_lon_of(row.HI_lon))
                /\ UNCHANGED unique_hurr
           ELSE IF counted(row, unique_hurr, dataa, row_pos)
           THEN /\ grid_counts' = increment(grid_counts, row.i_HI_lat, row.i_HI_lon)
                /\ unique_hurr' = unique_hurr \cup
                                      {<<row.i_HI_lat, row.i_HI_lon, row.HI_name>>}
           ELSE UNCHANGED <<grid_counts, unique_hurr>>
    /\ row_pos' = row_pos + 1
    /\ UNCHANGED <<script, pc, runs, fs, lastOut, dataa, data, hurr_counts,
                   unique_hurricanes, grid_probs, detVars, matVars, envVars, distVars>>

\* conditional_mhw_ri_prob.py lines 100-103
SortHurrData ==
    /\ script = "conditional_mhw_ri_prob" /\ pc = "count"
    /\ row_pos >= Len(dataa)
    /\ data' = sort_values(fs["intensifications30_IID_24.csv"].rows)
    /\ row_pos' = 0
    /\ pc' = "hurr_count"
    /\ UNCHANGED <<script, runs, fs, lastOut, dataa, grid_counts, hurr_counts,
                   unique_hurr, unique_hurricanes, grid_probs,
                   detVars, matVars, envVars, distVars>>

\* conditional_mhw_ri_prob.py lines 106-122 (one row)
HurrCountStep ==
    /\ script = "conditional_mhw_ri_prob" /\ pc = "hurr_count"
    /\ row_pos < Len(data)
    /\ LET row == data[row_pos + 1]
       IN  IF counted(row, unique_hurricanes, data, row_pos)
           THEN /\ hurr_counts' = increment(hurr_counts, row.i_HI_lat, row.i_HI_lon)
                /\ unique_hurricanes' = unique_hurricanes \cup
                                            {<<row.i_HI_lat, row.i_HI_lon, row.HI_name>>}
           ELSE UNCHANGED <<hurr_counts, unique_hurricanes>>
    /\ row_pos' = row_pos + 1
    /\ UNCHANGED <<script, pc, runs, fs, lastOut, dataa, data, grid_counts,
                   unique_hurr, grid_probs, detVars, matVars, envVars, distVars>>

\* RI_reg_prob_plot.py lines 80-110; conditional_mhw_ri_prob.py lines
\* 125-165: the probabilities, the masks and the figure
PlotProbabilities ==
    /\ script \in GridScripts
    /\ \/ script = "RI_reg_prob_plot" /\ pc = "count" /\ row_pos >= Len(dataa)
       \/ script = "conditional_mhw_ri_prob" /\ pc = "hurr_count" /\ row_pos >= Len(data)
    /\ grid_probs' = probabilities(grid_counts,
                                   Len(fs["intensifications30_IID_24.csv"].rows))
    /\ pc' = "done"
    /\ UNCHANGED <<script, runs, fs, lastOut, dataa, data, row_pos, grid_counts,
                   hurr_counts, unique_hurr, unique_hurricanes,
                   detVars, matVars, envVars, distVars>>

RowOrders(n) == {q \in [1..n -> 1..n] : \A a, b \in 1..n : q[a] = q[b] => a = b}

\* the same script run again after the rows of its input tables have been
\* put in another order
RerunPermuted ==
    /\ script \in GridScripts /\ pc = "done"
    /\ runs < MaxRuns
    /\ runs' = runs + 1
    /\ lastOut' = [grid_counts |-> grid_counts, hurr_counts |-> hurr_counts]
    /\ LET ri == fs["intensifications30_IID_24.csv"]
           mhw == fs["MHW_info_41_24.csv"]
       IN  \E q1 \in RowOrders(Len(ri.rows)) : \E q2 \in RowOrders(Len(mhw.rows)) :
              fs' = [fs EXCEPT
                       !["intensifications30_IID_24.csv"] =
                           Table(ri.columns, [n \in 1..Len(ri.rows) |-> ri.rows[q1[n]]]),
                       !["MHW_info_41_24.csv"] =
                           Table(mhw.columns, [n \in 1..Len(mhw.rows) |-> mhw.rows[q2[n]]])]
    /\ fs' # fs
    /\ pc' = "read"
    /\ dataa' = <<>> /\ data' = <<>> /\ row_pos' = 0
    /\ grid_counts' = <<>> /\ hurr_counts' = <<>> /\ grid_probs' = <<>>
    /\ unique_hurr' = {} /\ unique_hurricanes' = {}
    /\ UNCHANGED <<script, detVars, matVars, envVars, distVars>>

GridInit ==
    /\ script \in GridScripts
    /\ pc = "read"
    /\ runs = 1
    /\ IF script = "RI_reg_prob_plot"
       THEN \E h \in SeqsUpTo(EventRows, MaxEvents) :
               fs = [f \in FileNames |->
                       IF f = "intensifications30_IID_24.csv"
                       THEN Table(<<"HI_lat", "HI_lon", "HI_name">>, h)
                       ELSE NoFile]
       ELSE \E h \in SeqsUpTo(EventRows, MaxEvents) : \E u \in SeqsUpTo(HurrRows, MaxHurr) :
               fs = [f \in FileNames |->
                       IF f = "MHW_info_41_24.csv"
                       THEN Table(<<"HI_lat", "HI_lon", "HI_name">>, h)
                       ELSE IF f = "intensifications30_IID_24.csv"
                       THEN Table(<<"i_HI_lat", "i_HI_lon", "HI_name">>, u)
                       ELSE NoFile]
    /\ lastOut = <<>>
    /\ GridIdle
    /\ DetIdle /\ MatIdle /\ EnvIdle /\ DistIdle

GridNext ==
    \/ LoadEvents \/ CountStep \/ SortHurrData \/ HurrCountStep
    \/ PlotProbabilities \/ RerunPermuted

GridSpec == GridInit /\ [][GridNext]_vars

-----------------------------------------------------------------------------
(* calc_dist of compound_mhw_RI.py called on its own *)

\* points of the Gulf, in tenths of a degree, one degree apart
DistPoints == {<<lat, lon>> : lat \in {240, 250, 260, 270}, lon \in {-920, -910, -900, -890}}

\* calc_dist(A, B), calc_dist(B, A) and calc_dist(A, A) for the points A, B
\* it is called with
CallCalcDist ==
    /\ script = "calc_dist" /\ pc = "call"
    /\ LET A == dist_args[1]
           B == dist_args[2]
       IN  dist_out' = <<haversine(A[1], A[2], B[1], B[2]),
                         haversine(B[1], B[2], A[1], A[2]),
                         haversine(A[1], A[2], A[1], A[2])>>
    /\ pc' = "returned"
    /\ UNCHANGED <<script, runs, fs, lastOut, dist_args, detVars, matVars,
                   envVars, gridVars>>

DistInit ==
    /\ script = "calc_dist"
    /\ pc = "call"
    /\ runs = 1
    /\ fs = [f \in FileNames |-> NoFile]
    /\ lastOut = <<>>
    /\ dist_args \in DistPoints \X DistPoints
    /\ dist_out = <<>>
    /\ DetIdle /\ MatIdle /\ EnvIdle /\ GridIdle

DistNext == CallCalcDist

DistSpec == DistInit /\ [][DistNext]_vars

-----------------------------------------------------------------------------
(* Running a script again on the files as they are *)

Rerun ==
    /\ pc = "done"
    /\ runs < MaxRuns
    /\ runs' = runs + 1
    /\ lastOut' = Outputs
    /\ pc' = "read"
    /\ df' = <<>> /\ i' = 0 /\ results' = <<>> /\ resIdx' = <<>>
    /\ hi_df' = <<>> /\ mhw_df' = <<>> /\ mhw_pos' = 0
    /\ result_df' = <<>> /\ no_ri_df' = <<>> /\ pairIdx' = <<>> /\ noRiIdx' = <<>>
    /\ UNCHANGED <<script, fs, plotVars>>

Init == InitDetector \/ InitMatcher

Next ==
    \/ ReadTracks \/ ScanStep \/ WriteResults
    \/ ReadTables \/ MatchStep \/ SaveResult \/ SaveNoRi
    \/ Rerun

Spec == Init /\ [][Next]_vars

\* the same scripts on input tables that may hold a malformed timestamp
InitErr == InitDetectorErr \/ InitMatcherErr

ErrSpec == InitErr /\ [][Next]_vars

-----------------------------------------------------------------------------
(* Properties of the RI detector *)

DetectorRan == script = "HI_finder" /\ pc \in {"scan", "done"}

DetectorDone == script = "HI_finder" /\ pc = "done"

EpisodeFile == fs["intensifications.csv"].rows

TimeOf(d, k) == strptime(Row(d, k).ISO_TIME)

WindOf(d, k) == Row(d, k).USA_WIND

\* row j lies after row n, at most 24 hours later, with a wind speed at
\* least 30 higher
Qualifies(d, n, j) ==
    /\ j > n
    /\ TimeOf(d, j) - TimeOf(d, n) <= 24 * 60
    /\ WindOf(d, j) - WindOf(d, n) >= 30

Chronological(d) ==
    \A a \in 0..(Len(d) - 2) : TimeOf(d, a) <= TimeOf(d, a + 1)

EpisodesStartingAt(n) == {k \in 1..Len(resIdx) : resIdx[k][1] = n}

\* C1: every episode the detector emits, in its result list and in the
\* file it writes, has wind_speed_change >= 30 and duration <= 24 hours.
C1_EpisodeBounds ==
    /\ \A k \in 1..Len(results) :
          results[k].wind_speed_change >= 30 /\ results[k].duration <= 24 * 60
    /\ DetectorDone =>
          /\ Len(EpisodeFile) = Len(results)
          /\ \A k \in 1..Len(EpisodeFile) :
                /\ EpisodeFile[k].wind_speed_change >= 30
                /\ EpisodeFile[k].duration <= 24 * 60

\* an episode on both bounds (exactly 30, exactly 24 hours) has been written
C1_Witness ==
    /\ DetectorDone
    /\ \E k \in 1..Len(EpisodeFile) :
          EpisodeFile[k].wind_speed_change = 30 /\ EpisodeFile[k].duration = 24 * 60

\* C2: on a chronologically sorted table, start index n gets exactly one
\* episode if some later row within 24 hours (inclusive) is at least 30
\* (inclusive) faster, and none otherwise; overlapping starts each get
\* their own episode.
C2_OneEpisodePerQualifyingStart ==
    (DetectorRan /\ Chronological(df)) =>
        /\ Len(results) = Len(resIdx)
        /\ \A n \in 0..(i - 1) :
              Cardinality(EpisodesStartingAt(n)) =
                 IF \E j \in 0..(Len(df) - 1) : Qualifies(df, n, j) THEN 1 ELSE 0
        /\ \A k \in 1..Len(resIdx) :
              /\ resIdx[k][1] \in 0..(i - 1)
              /\ results[k].start_time = TimeOf(df, resIdx[k][1])
              /\ results[k].start_wind_speed = WindOf(df, resIdx[k][1])

\* a sorted table with two episodes whose windows overlap, one of them
\* ending exactly 24 hours and 30 knots after its start, and a start index
\* without episode
C2_Witness ==
    /\ DetectorDone /\ Chronological(df) /\ df # HourlyStorm
    /\ \E k1, k2 \in 1..Len(resIdx) :
          /\ resIdx[k1][1] < resIdx[k2][1]
          /\ resIdx[k2][1] < resIdx[k1][2]
          /\ results[k2].duration = 24 * 60
          /\ results[k2].wind_speed_change = 30
    /\ \E n \in 0..(Len(df) - 1) : EpisodesStartingAt(n) = {}

\* C3: the end row of an episode is the first row after its start that
\* lies in the 24-hour window with a wind speed at least 30 higher; the
\* recorded end, change and duration are those of that row.
C3_EarliestEnd ==
    DetectorRan =>
        \A k \in 1..Len(resIdx) :
            LET n == resIdx[k][1]
                j == resIdx[k][2]
            IN  /\ Qualifies(df, n, j)
                /\ \A m \in (n + 1)..(j - 1) : ~Qualifies(df, n, m)
                /\ results[k].end_time = TimeOf(df, j)
                /\ results[k].end_wind_speed = WindOf(df, j)
                /\ results[k].wind_speed_change = WindOf(df, j) - WindOf(df, n)
                /\ results[k].duration = TimeOf(df, j) - TimeOf(df, n)

\* an episode that ends at its first qualifying row although a later row of
\* the window has a larger increase
C3_Witness ==
    /\ DetectorDone /\ df # HourlyStorm
    /\ \E k \in 1..Len(resIdx) :
          \E m \in 0..(Len(df) - 1) :
              /\ m > resIdx[k][2]
              /\ Qualifies(df, resIdx[k][1], m)
              /\ WindOf(df, m) > WindOf(df, resIdx[k][2])

\* C4 as stated: the hourly storm 30, 40, 50, 65, 70 gives exactly one
\* episode, from index 0 with change 35.
C4_ExactlyOneEpisode ==
    (DetectorDone /\ df = HourlyStorm) =>
        /\ Len(results) = 1
        /\ resIdx[1][1] = 0
        /\ results[1].wind_speed_change = 35

\* C4 amended: the hourly storm 30, 40, 50, 65, 70 gives exactly two
\* episodes: index 0 to index 3 (change 35, 3 hours) and index 1 to index 4
\* (change 30, 3 hours); indices 2, 3 and 4 start none.
C4_TwoEpisodes ==
    (DetectorDone /\ df = HourlyStorm) =>
        /\ resIdx = << <<0, 3>>, <<1, 4>> >>
        /\ Len(results) = 2
        /\ results[1].wind_speed_change = 35 /\ results[1].duration = 3 * 60
        /\ results[2].wind_speed_change = 30 /\ results[2].duration = 3 * 60
        /\ Len(EpisodeFile) = 2

C4_Witness ==
    /\ DetectorDone /\ df = HourlyStorm
    /\ Len(EpisodeFile) = 2
    /\ EpisodeFile[2].start_wind_speed = 40

RowsNamed(d, name) == {m \in 1..Len(d) : d[m].NAME = name}

\* C10: no emitted episode starts at a storm that has a single track point.
C10_SinglePointStormNoEpisode ==
    DetectorRan =>
        \A k \in 1..Len(results) :
            Cardinality(RowsNamed(df, results[k].hurricane_name)) >= 2

\* C11: the start row and the end row of every emitted episode carry the
\* same storm name.
C11_EpisodeWithinOneStorm ==
    DetectorRan =>
        \A k \in 1..Len(resIdx) :
            Row(df, resIdx[k][1]).NAME = Row(df, resIdx[k][2]).NAME

\* C25: every emitted episode has duration >= 0, its end_time being never
\* earlier than its start_time, also for a table that lists several storms
\* one after the other, each in chronological order.
C25_DurationNotNegative ==
    DetectorRan =>
        \A k \in 1..Len(results) :
            /\ results[k].duration >= 0
            /\ results[k].end_time >= results[k].start_time

\* the result rows appended for the start index n
RowsStartedAt(n) == {k \in 1..Len(resIdx) : resIdx[k][1] = n}

\* C30: the pre-check and the extraction scan agree: for every index the
\* loop has handled, is_intensifying is True exactly when the extraction
\* scan finds an end row, a True index has exactly one result row and a
\* False index none, so there are as many result rows as True indices.
C30_PreCheckAgreesWithExtraction ==
    DetectorRan =>
        /\ Len(results) = Len(resIdx)
        /\ \A n \in 0..(i - 1) :
              /\ is_intensifying(df, n) <=>
                    extract_from(df, strptime(Row(df, n).ISO_TIME),
                                 Row(df, n).USA_WIND, n + 1) # NoIndex
              /\ Cardinality(RowsStartedAt(n)) = IF is_intensifying(df, n) THEN 1 ELSE 0
        /\ Len(results) = Cardinality({n \in 0..(i - 1) : is_intensifying(df, n)})

\* a table of three rows in which exactly the first two indices intensify,
\* the first through a row exactly one day later
C30_Witness ==
    /\ DetectorDone
    /\ Len(df) = 3 /\ Len(results) = 2
    /\ is_intensifying(df, 0) /\ is_intensifying(df, 1) /\ ~is_intensifying(df, 2)
    /\ results[1].duration = timedelta(1)

TrackFile == fs["ibtracs_data.csv"].rows

\* the text is no timestamp month/day/year hour:minute of the calendar
Malformed(s) ==
    ~(/\ s.mo \in 1..12
      /\ s.dd \in 1..DaysInMonth(s.yyyy, s.mo)
      /\ s.hh \in 0..23
      /\ s.mi \in 0..59)

MalformedTrackRows ==
    {k \in 0..(Len(TrackFile) - 1) : Malformed(Row(TrackFile, k).ISO_TIME)}

FirstMalformed ==
    CHOOSE k \in MalformedTrackRows : \A m \in MalformedTrackRows : k <= m

\* C12: when some row of the track table has a malformed timestamp, the
\* detector's run never completes: the outer loop never gets past the first
\* such row, the run ends aborted there or earlier (while scanning ahead to
\* it), and the output file stays what it was before the run.  A run
\* aborts for no other reason.
C12_MalformedTimestampFatal ==
    script = "HI_finder" =>
        /\ MalformedTrackRows # {} =>
              /\ pc # "done"
              /\ fs["intensifications.csv"] = StaleTable
              /\ pc \in {"scan", "aborted"} => i <= FirstMalformed
        /\ pc = "aborted" => MalformedTrackRows # {}

\* a run aborted while scanning ahead from an earlier start row, after an
\* episode had already been collected
C12_Witness ==
    /\ script = "HI_finder" /\ pc = "aborted"
    /\ i < FirstMalformed
    /\ Len(results) >= 1
    /\ fs["intensifications.csv"] = StaleTable

-----------------------------------------------------------------------------
(* Properties of the compound-event matcher *)

MatcherRan == script = "compound_mhw_RI" /\ pc \in {"match", "save_no_ri", "done"}

MatcherDone == script = "compound_mhw_RI" /\ pc = "done"

MhwFile == fs["MHW_1940_2022_80_52.csv"].rows

MatchFile == fs["MHW_info_80_52_24.csv"].rows

NoRiFile == fs["no_RI.csv"].rows

\* the date lies in the 10 days up to the RI start, both ends included
InWindow(date, riStart) == riStart - 10 * 1440 <= date /\ date <= riStart

\* the pair (MHW row, RI row) satisfies the spatial and the temporal predicate
Compound(mhw_row, hi_row) ==
    /\ calc_dist(mhw_row.MHW_lat, mhw_row.MHW_lon, hi_row.HI_lat, hi_row.HI_lon)
          <= 200 * 1000
    /\ \/ InWindow(to_datetime(mhw_row.date_start), strptime(hi_row.start_time))
       \/ InWindow(to_datetime(mhw_row.date_end), strptime(hi_row.start_time))

RecordsOf(mhw_idx, hi_idx) ==
    {k \in 1..Len(pairIdx) : pairIdx[k] = <<mhw_idx, hi_idx>>}

\* C5: for every MHW row the matcher has processed, the records emitted
\* for it are exactly the RI rows within 200 km whose start lies within 10
\* days after the MHW start or the MHW end (inclusive): one record per such
\* pair, none for any other pair.
C5_ExactlyTheCompoundPairs ==
    MatcherRan =>
        /\ Len(result_df) = Len(pairIdx)
        /\ \A p \in 1..mhw_pos : \A h \in 0..(Len(hi_df) - 1) :
              Cardinality(RecordsOf(mhw_df[p].label, h)) =
                 IF Compound(mhw_df[p].row, Row(hi_df, h)) THEN 1 ELSE 0
        /\ \A k \in 1..Len(pairIdx) :
              /\ \E p \in 1..mhw_pos : mhw_df[p].label = pairIdx[k][1]
              /\ result_df[k].HI_lat = Row(hi_df, pairIdx[k][2]).HI_lat
              /\ result_df[k].HI_lon = Row(hi_df, pairIdx[k][2]).HI_lon
              /\ result_df[k].HI_date = strptime(Row(hi_df, pairIdx[k][2]).start_time)
              /\ result_df[k].date_start = to_datetime(Row(MhwFile, pairIdx[k][1]).date_start)
              /\ result_df[k].date_end = to_datetime(Row(MhwFile, pairIdx[k][1]).date_end)

\* one MHW row matched with two RI rows, one of them through its end date
\* only, while a third pair is rejected
C5_Witness ==
    /\ MatcherDone
    /\ \E k1, k2 \in 1..Len(pairIdx) :
          /\ k1 # k2 /\ pairIdx[k1][1] = pairIdx[k2][1]
          /\ ~InWindow(result_df[k1].date_start, result_df[k1].HI_date)
    /\ Len(pairIdx) < Len(mhw_df) * Len(hi_df)

IsFloorDays(w, td) == w * 1440 <= td /\ td < (w + 1) * 1440

\* C7: window_start is the whole-day component (floor) of mhwStart - riStart
\* and window_end that of mhwEnd - riStart, whichever date made the match.
C7_WindowsRelativeToRiStart ==
    MatcherRan =>
        \A k \in 1..Len(result_df) :
            LET mhw_row == Row(MhwFile, pairIdx[k][1])
                riStart == strptime(Row(hi_df, pairIdx[k][2]).start_time)
            IN  /\ IsFloorDays(result_df[k].window_start,
                               to_datetime(mhw_row.date_start) - riStart)
                /\ IsFloorDays(result_df[k].window_end,
                               to_datetime(mhw_row.date_end) - riStart)

\* a record matched through the MHW end date only, with an RI start at
\* 18:00, so that neither difference is a whole number of days
C7_Witness ==
    /\ MatcherDone
    /\ \E k \in 1..Len(result_df) :
          /\ ~InWindow(result_df[k].date_start, result_df[k].HI_date)
          /\ InWindow(result_df[k].date_end, result_df[k].HI_date)
          /\ result_df[k].HI_date % 1440 # 0
          /\ result_df[k].window_start = -11
          /\ result_df[k].window_end = -10

\* the end-to-end scenario: one MHW event at (25.0, -90.0) from 2020-08-01
\* to 2020-08-05, one RI episode at (25.3, -90.2) starting 2020-08-10 00:00
EndToEndInput ==
    /\ script = "compound_mhw_RI"
    /\ MhwFile = <<MhwRow(DateText(8, 1, 2020), DateText(8, 5, 2020), {})>>
    /\ Len(fs["intensifications30_IID_24.csv"].rows) = 1
    /\ LET h == fs["intensifications30_IID_24.csv"].rows[1]
       IN  /\ h.HI_lat = 253 /\ h.HI_lon = -902
           /\ h.start_time = TimeText(8, 10, 2020, 0, 0)

\* C8: in the end-to-end scenario the matcher emits exactly one Compound
\* Match, with window_start = -9 and a distance under 200 km, and the
\* unmatched output is empty.
C8_EndToEnd ==
    (MatcherDone /\ EndToEndInput) =>
        /\ Len(MatchFile) = 1
        /\ MatchFile[1].window_start = -9
        /\ MatchFile[1].distance_in_km < 200 * 1000
        /\ MatchFile[1].HI_date = [yyyy |-> 2020, mo |-> 8, dd |-> 10, hh |-> 0, mi |-> 0, ss |-> 0]
        /\ NoRiFile = <<>>

C8_Witness ==
    /\ MatcherDone /\ EndToEndInput
    /\ Len(MatchFile) = 1 /\ MatchFile[1].window_end = -5

\* the MHW event starts more than 10 days before the RI start and ends
\* after it
Spans(mhw_row, hi_row) ==
    /\ to_datetime(mhw_row.date_start) < strptime(hi_row.start_time) - 10 * 1440
    /\ to_datetime(mhw_row.date_end) > strptime(hi_row.start_time)

\* C23: an MHW event that is ongoing at the RI start but neither starts
\* nor ends in the 10 days up to it (mhwStart < riStart - 10 days and
\* mhwEnd > riStart) has no record with that RI episode, even within 200 km.
C23_SpanningEventNotMatched ==
    MatcherRan =>
        \A p \in 1..mhw_pos : \A h \in 0..(Len(hi_df) - 1) :
            Spans(mhw_df[p].row, Row(hi_df, h)) =>
                RecordsOf(mhw_df[p].label, h) = {}

\* a run whose only MHW row spans the window of an RI row 39 km away and
\* went to the unmatched output
C23_Witness ==
    /\ MatcherDone
    /\ Len(mhw_df) = 1 /\ Len(hi_df) >= 1
    /\ \E h \in 0..(Len(hi_df) - 1) :
          /\ Spans(mhw_df[1].row, Row(hi_df, h))
          /\ calc_dist(mhw_df[1].row.MHW_lat, mhw_df[1].row.MHW_lon,
                       Row(hi_df, h).HI_lat, Row(hi_df, h).HI_lon) < km(100)
    /\ Len(NoRiFile) = 1 /\ MatchFile = <<>>

\* C24: in every record of the matched output at least one of
\* window_start and window_end is an integer of -10 .. 0.
C24_OneWindowInRange ==
    MatcherRan =>
        \A k \in 1..Len(result_df) :
            \/ result_df[k].window_start \in -10..0
            \/ result_df[k].window_end \in -10..0

\* records with only window_start in -10 .. 0 (an MHW event starting on the
\* RI day and ending after it) and with only window_end in it
C24_Witness ==
    /\ MatcherDone
    /\ \E k \in 1..Len(result_df) :
          result_df[k].window_start = 0 /\ result_df[k].window_end = 1
    /\ \E k \in 1..Len(result_df) :
          result_df[k].window_start = -11 /\ result_df[k].window_end \in -10..0

\* the cell holds a value and not NaN
NotNaN(cell) == ToString(cell) # ToString(NaN)

\* C26: in every record of the matched output window_start and window_end
\* are integers (the NaN branch is never taken inside the loop over the
\* matches), and window_peak, which no statement assigns, is empty.
C26_WindowsDefinedPeakEmpty ==
    MatcherRan =>
        /\ \A k \in 1..Len(result_df) :
              /\ NotNaN(result_df[k].window_start)
              /\ NotNaN(result_df[k].window_end)
              /\ result_df[k].window_start \in Int
              /\ result_df[k].window_end \in Int
              /\ result_df[k].window_peak = NaN
        /\ MatcherDone =>
              \A k \in 1..Len(MatchFile) :
                  /\ MatchFile[k].window_start = result_df[k].window_start
                  /\ MatchFile[k].window_end = result_df[k].window_end
                  /\ MatchFile[k].window_peak = NaN

\* a written table of two records, of two MHW rows, each with its own
\* window_start
C26_Witness ==
    /\ MatcherDone
    /\ Len(MatchFile) = 2
    /\ pairIdx[1][1] # pairIdx[2][1]
    /\ MatchFile[1].window_start # MatchFile[2].window_start
    /\ MatchFile[1].window_peak = NaN /\ MatchFile[2].window_peak = NaN

\* C22: after a run every MHW input row without a missing field is in
\* exactly one of the two outputs, as one or more matched records or as
\* exactly one unmatched record; a row with a missing field is in neither.
C22_EveryCompleteRowInOneOutput ==
    MatcherDone =>
        /\ Len(NoRiFile) = Len(noRiIdx) /\ Len(MatchFile) = Len(pairIdx)
        /\ \A k \in 1..Len(noRiIdx) : NoRiFile[k] = Row(MhwFile, noRiIdx[k])
        /\ \A idx \in 0..(Len(MhwFile) - 1) :
              LET inNoRi == {k \in 1..Len(noRiIdx) : noRiIdx[k] = idx}
                  inMatch == {k \in 1..Len(pairIdx) : pairIdx[k][1] = idx}
              IN  IF Row(MhwFile, idx).missing = {}
                  THEN \/ inMatch # {} /\ inNoRi = {}
                       \/ inMatch = {} /\ Cardinality(inNoRi) = 1
                  ELSE inMatch = {} /\ inNoRi = {}

\* a run on an MHW table of two rows, the first with an empty cell and
\* dates that would match, the second complete and matched
C22_Witness ==
    /\ MatcherDone
    /\ Len(MhwFile) = 2
    /\ MhwFile[1].missing # {} /\ MhwFile[2].missing = {}
    /\ Len(hi_df) >= 1 /\ Len(MatchFile) >= 1
    /\ \A k \in 1..Len(pairIdx) : pairIdx[k][1] = 1
    /\ NoRiFile = <<>>

HiFile == fs["intensifications30_IID_24.csv"].rows

MalformedDate(s) == ~(s.mo \in 1..12 /\ s.dd \in 1..DaysInMonth(s.yyyy, s.mo))

\* some MHW row has a malformed date_start or date_end, or some RI row a
\* malformed start_time
MalformedMatcherInput ==
    \/ \E k \in 1..Len(MhwFile) :
          MalformedDate(MhwFile[k].date_start) \/ MalformedDate(MhwFile[k].date_end)
    \/ \E k \in 1..Len(HiFile) : Malformed(HiFile[k].start_time)

\* the MHW table has rows and none of them has an empty cell: dropna
\* removes nothing and the loop over the MHW rows has iterations
MhwTableComplete ==
    MhwFile # <<>> /\ \A k \in 1..Len(MhwFile) : MhwFile[k].missing = {}

\* C13: when an MHW row or an RI row of the matcher's input has a malformed
\* timestamp, the run never reaches its to_csv calls and both output files
\* stay what they were before the run, whatever the distance between the
\* rows.  (Stated for MHW tables that have rows, none with an empty cell.)
C13_MalformedTimestampFatal ==
    (script = "compound_mhw_RI" /\ MalformedMatcherInput /\ MhwTableComplete) =>
        /\ pc \notin {"save_no_ri", "done"}
        /\ fs["MHW_info_80_52_24.csv"] = StaleTable
        /\ fs["no_RI.csv"] = StaleTable

-----------------------------------------------------------------------------
(* Properties of calc_dist *)

\* C18: calc_dist is symmetric and the distance of a point from itself is
\* 0: for all points A and B, calc_dist(A, B) = calc_dist(B, A) and
\* calc_dist(A, A) = 0.
C18_SymmetricZeroSelf ==
    (script = "calc_dist" /\ pc = "returned") =>
        /\ dist_out[1] = dist_out[2]
        /\ dist_out[3] = 0

\* calc_dist has returned for two points that differ in latitude and in
\* longitude and are more than 100 km apart
C18_Witness ==
    /\ script = "calc_dist" /\ pc = "returned"
    /\ dist_args[1][1] # dist_args[2][1] /\ dist_args[1][2] # dist_args[2][2]
    /\ dist_out[1] > km(100)

-----------------------------------------------------------------------------
(* Properties of the field plots *)

\* the RI dates of the run for which the loader found data
Contributing == {k \in 1..Len(ri_dates) : load_field(ri_dates[k], nc) # None}

RECURSIVE SumOfContributing(_)
SumOfContributing(k) ==
    IF k = 0 THEN <<0, 0>>
    ELSE IF k \in Contributing
         THEN field_add(SumOfContributing(k - 1), load_field(ri_dates[k], nc))
         ELSE SumOfContributing(k - 1)

\* C14: in the TCHP and LHF scripts the mean field, once computed, is the
\* sum of the per-date fields of the RI dates that had data, divided by the
\* number of those dates.
C14_MeanOverContributingDates ==
    (script \in {"TCHP_plot", "LHF_plot"} /\ pc = "plot" /\ Contributing # {}) =>
        aggregate = field_div(SumOfContributing(Len(ri_dates)), Cardinality(Contributing))

\* C15: in the VWS, TCHP and LHF scripts no run ends with an error while
\* RI dates remain to be processed: a date without data is skipped.
C15_MissingFileNeverFatal ==
    (script \in EnvScripts /\ pc = "aborted") => date_pos >= Len(ri_dates)

\* whether the data files hold a field for the day or time t
HasDataOn(t) ==
    IF script = "TCHP_plot" THEN (t \div 1440) \in nc.daily
    ELSE nc.yearly /\ t \in nc.times

\* whether the loader returned data for the k-th RI date
Loaded(k) ==
    IF script = "VWS_plot" THEN components(ri_dates[k], nc).u200 # None
    ELSE load_field(ri_dates[k], nc) # None

\* C21: for each RI start date D the TCHP, LHF and VWS scripts take their
\* data from the days D-10 .. D-1 and not from D itself: an RI date that has
\* been processed got data exactly when a day of D-10 .. D-1 has data.
C21_WindowBeforeRiDate ==
    script \in EnvScripts =>
        \A k \in 1..date_pos :
            Loaded(k) <=> \E n \in 1..10 : HasDataOn(ri_dates[k] - timedelta(n))

\* C19: a field for which no RI date contributed data is shown as no-data
\* and the run does not end with an error: a run of TCHP_plot.py or
\* LHF_plot.py none of whose RI dates had data is never aborted.
C19_NoDataNeverFatal ==
    (script \in {"TCHP_plot", "LHF_plot"} /\ Contributing = {}) => pc # "aborted"

-----------------------------------------------------------------------------
(* Properties of the grid plots *)

GridDone == script \in GridScripts /\ pc = "done"

Abs(x) == IF x < 0 THEN -x ELSE x

\* counts after an event of cell (r, c): one more in every cell of the grid
\* at most one row and one column away, the same everywhere else
AfterEvent(counts, r, c) ==
    [cell \in Cells |->
        counts[cell] + (IF Abs(cell[1] - r) <= 1 /\ Abs(cell[2] - c) <= 1 THEN 1 ELSE 0)]

\* C16: in both grid scripts, a step that counts an event whose cell (r, c)
\* lies inside the 16 x 22 grid adds exactly 1 to every cell (i, j) of the
\* grid with |i - r| <= 1 and |j - c| <= 1 and changes no other cell; this
\* holds for grid_counts and for hurr_counts.
C16_NeighbourhoodIncrement ==
    [][/\ (script \in GridScripts /\ pc = "count" /\ row_pos' = row_pos + 1) =>
            LET row == dataa[row_pos + 1]
                r == IF script = "RI_reg_prob_plot" THEN i_lat_of(row.HI_lat)
                     ELSE row.i_HI_lat
                c == IF script = "RI_reg_prob_plot" THEN i_lon_of(row.HI_lon)
                     ELSE row.i_HI_lon
                is_counted ==
                    \/ script = "RI_reg_prob_plot"
                    \/ /\ row.HI_name # "NOT_NAMED"
                       /\ <<r, c, row.HI_name>> \notin unique_hurr
            IN  (is_counted /\ <<r, c>> \in Cells) =>
                    grid_counts' = AfterEvent(grid_counts, r, c)
       /\ (script \in GridScripts /\ pc = "hurr_count" /\ row_pos' = row_pos + 1) =>
            LET row == data[row_pos + 1]
                r == row.i_HI_lat
                c == row.i_HI_lon
                is_counted ==
                    /\ row.HI_name # "NOT_NAMED"
                    /\ <<r, c, row.HI_name>> \notin unique_hurricanes
            IN  (is_counted /\ <<r, c>> \in Cells) =>
                    hurr_counts' = AfterEvent(hurr_counts, r, c)]_vars

\* a run that counted one event in the corner cell (15, 0), which raised 4
\* cells, and one in the interior cell (5, 9), which raised 9
C16_Witness ==
    /\ GridDone
    /\ grid_counts[<<15, 0>>] = 1 /\ grid_counts[<<5, 9>>] = 1
    /\ Cardinality({cell \in Cells : grid_counts[cell] = 1}) = 13
    /\ \A cell \in Cells : grid_counts[cell] <= 1

\* the table whose events grid_counts counts
EventFile ==
    IF script = "RI_reg_prob_plot" THEN fs["intensifications30_IID_24.csv"].rows
    ELSE fs["MHW_info_41_24.csv"].rows

\* the location is outside the grid: latitude < 15 or >= 31, longitude
\* <= -100 or > -78
OutsideGrid(row) ==
    \/ row.HI_lat < 150 \/ row.HI_lat >= 310
    \/ row.HI_lon <= -1000 \/ row.HI_lon > -780

\* C27: an event located outside the grid bounds adds nothing to the grid
\* counts: when every event of the table is outside, every cell stays 0.
C27_OutsideEventsCountNothing ==
    (script \in GridScripts /\ pc # "read"
        /\ \A k \in 1..Len(EventFile) : OutsideGrid(EventFile[k])) =>
            \A cell \in Cells : grid_counts[cell] = 0

RiTable == fs["intensifications30_IID_24.csv"].rows

\* every (cell, storm) of the matched table is one of the RI table
MatchedWithinRiTable ==
    \A k \in 1..Len(EventFile) :
        \E h \in 1..Len(RiTable) :
            /\ RiTable[h].i_HI_lat = i_lat_of(EventFile[k].HI_lat)
            /\ RiTable[h].i_HI_lon = i_lon_of(EventFile[k].HI_lon)
            /\ RiTable[h].HI_name = EventFile[k].HI_name

\* the run C28 speaks of: RI_reg_prob_plot.py, or conditional_mhw_ri_prob.py
\* on a matched table within the RI table
BoundedRun ==
    /\ GridDone
    /\ script = "conditional_mhw_ri_prob" => MatchedWithinRiTable

\* the cell of grid_probs is a number from 0 to 100 percent
IsPercentage(p) ==
    /\ ToString(p) \notin {ToString(NaN), ToString("inf")}
    /\ p \in 0..(100 * 1000)

\* C28 as stated: every cell's count is at most the number of rows of the
\* RI table and every cell's probability lies in [0, 100].
C28_ProbabilityInRange ==
    BoundedRun =>
        \A cell \in Cells :
            /\ grid_counts[cell] <= Len(RiTable)
            /\ IsPercentage(grid_probs[cell])

\* C28, amended: every cell's count is at most the number of rows of the
\* RI table; when the RI table has rows every cell's probability lies in
\* [0, 100], and when it has none every cell's probability is NaN.
C28_ProbabilityInRangeOfNonEmptyTable ==
    BoundedRun =>
        \A cell \in Cells :
            /\ grid_counts[cell] <= Len(RiTable)
            /\ IF Len(RiTable) > 0 THEN IsPercentage(grid_probs[cell])
               ELSE grid_probs[cell] = NaN

\* conditional_mhw_ri_prob.py on an RI table of one row and a matched
\* table of two rows of that storm in that cell: the cell stands at 100
C28_Witness ==
    /\ BoundedRun /\ script = "conditional_mhw_ri_prob"
    /\ Len(RiTable) = 1 /\ Len(EventFile) = 2
    /\ EventFile[1] # EventFile[2]
    /\ grid_counts[<<5, 9>>] = 1
    /\ grid_probs[<<5, 9>>] = 100 * 1000
    /\ grid_probs[<<0, 0>>] = 0

\* the (cell, storm) pairs of the named rows among the first n rows
NamedPairs(rows, n) ==
    {<<rows[k].i_HI_lat, rows[k].i_HI_lon, rows[k].HI_name>> :
        k \in {m \in 1..n : rows[m].HI_name # "NOT_NAMED"}}

\* the counts in which every pair has added its footprint once
OncePerPair(pairs) ==
    [cell \in Cells |->
        Cardinality({q \in pairs :
                        Abs(cell[1] - q[1]) <= 1 /\ Abs(cell[2] - q[2]) <= 1})]

\* C29: in conditional_mhw_ri_prob.py every (cell, storm name) pair adds
\* its footprint at most once, however many rows share the pair, and rows
\* named NOT_NAMED change no count: grid_counts and hurr_counts are the
\* footprints of the distinct pairs of the named rows handled so far.
C29_OncePerCellAndStorm ==
    (script = "conditional_mhw_ri_prob" /\ pc \in {"count", "hurr_count", "done"}) =>
        /\ grid_counts =
              OncePerPair(NamedPairs(dataa, IF pc = "count" THEN row_pos ELSE Len(dataa)))
        /\ hurr_counts =
              OncePerPair(NamedPairs(data, IF pc = "hurr_count" THEN row_pos ELSE Len(data)))

\* two rows of storm A in cell (5, 9) of the matched table raised the cell
\* once, and the RI table's row raised hurr_counts
C29_Witness ==
    /\ GridDone /\ script = "conditional_mhw_ri_prob"
    /\ Len(dataa) = 2 /\ dataa[1] = dataa[2]
    /\ dataa[1].HI_name = "A" /\ dataa[1].i_HI_lat = 5 /\ dataa[1].i_HI_lon = 9
    /\ EventFile[1] # EventFile[2]
    /\ grid_counts[<<5, 9>>] = 1 /\ grid_counts[<<4, 8>>] = 1
    /\ \E cell \in Cells : hurr_counts[cell] = 1

\* C20: a run on the same tables with their rows in another order ends
\* with the same count in every cell of grid_counts and of hurr_counts.
C20_OrderIndependent ==
    (GridDone /\ runs >= 2) =>
        /\ grid_counts = lastOut.grid_counts
        /\ hurr_counts = lastOut.hurr_counts

\* a second run of conditional_mhw_ri_prob.py on a table whose two rows,
\* one of them 'NOT_NAMED', lie in the same cell and have changed places
C20_Witness ==
    /\ GridDone /\ runs = 2
    /\ script = "conditional_mhw_ri_prob"
    /\ Len(dataa) = 2
    /\ dataa[1].i_HI_lat = dataa[2].i_HI_lat /\ dataa[1].i_HI_lon = dataa[2].i_HI_lon
    /\ dataa[1].HI_name = "NOT_NAMED" /\ dataa[2].HI_name = "A"
    /\ grid_counts[<<5, 9>>] = 1

-----------------------------------------------------------------------------
(* Properties of both scripts *)

Done == pc = "done"

ColumnsOf(t) == {t.columns[n] : n \in 1..Len(t.columns)}

\* C17: every column the matcher reads from the RI table (HI_lat, HI_lon,
\* HI_name, start_time, start_wind_speed, end_time, end_wind_speed) is a
\* column of the table the detector has written, so the matcher can run on
\* the detector's output without a missing-column error.
C17_DetectorOutputConsumable ==
    DetectorDone =>
        {HiColumns[n] : n \in 1..Len(HiColumns)}
            \subseteq ColumnsOf(fs["intensifications.csv"])

\* C9: a second run on the same input files leaves every output file
\* exactly as the first run left it, and no row that was in an output file
\* before a run is in it after the run unless the run produced it: the
\* file holds the run's table and nothing else.
C9_RerunSameOutput ==
    Done =>
        /\ runs >= 2 => Outputs = lastOut
        /\ \A f \in OutputFiles : \A k \in 1..Len(fs[f].rows) :
              fs[f].rows[k] # StaleTable.rows[1]
        /\ script = "HI_finder" => Len(EpisodeFile) = Len(results)
        /\ script = "compound_mhw_RI" =>
              Len(MatchFile) = Len(result_df) /\ Len(NoRiFile) = Len(no_ri_df)

\* the matcher has run twice and both of its output files have rows
C9_Witness ==
    /\ MatcherDone /\ runs = 2
    /\ Len(MatchFile) >= 1 /\ Len(NoRiFile) >= 1
    /\ Outputs = lastOut

====
